---- MODULE Spec2Model ----
(***************************************************************************)
(* A model of resource/backend/nmpi/broker.py: the command line script     *)
(* that bundles an executable and auxiliary files into a companion script, *)
(* submits it to the NMPI broker, polls the job status, and retrieves the  *)
(* output archive into the current working directory.                      *)
(*                                                                         *)
(* The script is a straight-line program; pc is its position.  File system *)
(* paths are sequences of path components (absolute and normalised).       *)
(***************************************************************************)
EXTENDS Integers, Sequences, FiniteSets, TLC

VARIABLES
    pc,         \* position in the script
    args,       \* parsed command line: executable, files, base, args
    idx,        \* position of the bundling loop in `files`
    filename,   \* loop variable of the bundling loop (kept after the loop)
    script,     \* statements appended to the fixed prologue
    arguments,  \* rewritten argument list
    config,     \* in-memory session configuration (a function on its keys)
    disk,       \* contents of ~/.nmpi_config
    token,      \* token handed to Client(), None for interactive login
    client,     \* token of the client created last, None if none
    job_id,     \* id returned by submit_job, None before
    status,     \* last job status seen by the poll loop
    datalist,   \* job["output_data"], reduced to whether each url matches
    item,       \* position of the retrieval loop in datalist
    archive,    \* the downloaded archive file: its members, whether it is on disk
    tree,       \* member names extracted to the local file system
    todo,       \* entries of os.listdir(tmpdir) still to visit
    cwd,        \* files copied into the current working directory
    emitted,    \* what the output step wrote: log lines and sidecar contents
    exitcode,   \* process exit code, -1 while running
    calls,      \* number of broker calls made, by kind
    writes,     \* number of completed writes of the configuration file
    attempts    \* tokens used by the submission attempts, in order

vars == <<pc, args, idx, filename, script, arguments, config, disk, token,
          client, job_id, status, datalist, item, archive, tree,
          todo, cwd, emitted, exitcode, calls, writes, attempts>>

None == "None"

----------------------------------------------------------------------------
(* Bounds of the model *)

MaxFiles == 2
MaxArgs == 2
MaxPolls == 4
MaxData == 2
MaxMembers == 2

\* sequences over S of length at most n
BSeq(S, n) == UNION {[1..m -> S] : m \in 0..n}

----------------------------------------------------------------------------
(* The local file system the script is started in *)

PProj == <<"proj">>
PSub == <<"proj", "sub">>
PRun == <<"proj", "run.sh">>
PData == <<"proj", "data.txt">>
PDeep == <<"proj", "sub", "in.dat">>
PDots == <<"proj", "..cache">>
PNope == <<"proj", "nope.txt">>
POut == <<"etc", "passwd">>
AFlag == <<"proj", "-v">>

Paths == {PRun, PData, PDeep, PDots, PNope, POut, PSub}
Bases == {PProj, PSub}
ArgValues == {PData, PDeep, PSub, POut, AFlag}

\* os.path.isfile / os.path.exists
RegularFiles == {PRun, PData, PDeep, PDots, POut}
Directories == {PProj, PSub, <<"etc">>}
isfile(p) == p \in RegularFiles
exists(p) == p \in RegularFiles \cup Directories

\* os.stat(filename)[stat.ST_MODE]
st_mode(p) == IF p = PRun THEN 33261 ELSE 33188

\* fd.read()
Content(p) == <<"bytes of", p>>

----------------------------------------------------------------------------
(* os.path.relpath and str.startswith("..") *)

RECURSIVE CommonLen(_, _)
CommonLen(p, q) ==
    IF p = <<>> \/ q = <<>> \/ Head(p) # Head(q) THEN 0
    ELSE 1 + CommonLen(Tail(p), Tail(q))

Ups(n) == [j \in 1..n |-> ".."]

relpath(p, start) ==
    LET c == CommonLen(p, start)
        rel == Ups(Len(start) - c) \o SubSeq(p, c + 1, Len(p))
    IN  IF rel = <<>> THEN <<".">> ELSE rel

\* the component names that begin with the two characters ".."
DotDotNames == {"..", "..cache"}

startswithDotDot(rel) == rel[1] \in DotDotNames

----------------------------------------------------------------------------
(* Payload bundler *)

\* base64.b64encode(bz2.compress(data))
compressed(data) == <<"b64", <<"bz2", data>>>>

\* variant: the instruction carries the local path, not the relative one
file_script_LocalPath(fname, tar_filename) ==
    IF ~isfile(fname) THEN <<>>
    ELSE <<[op |-> "extract", path |-> fname,
            mode |-> st_mode(fname), data |-> compressed(Content(fname))]>>

file_script(fname, tar_filename) ==
    IF ~isfile(fname) THEN <<>>
    ELSE <<[op |-> "extract", path |-> tar_filename,
            mode |-> st_mode(fname), data |-> compressed(Content(fname))]>>

\* variant: the executable is bundled first
files_ExecutableFirst == <<args.executable>> \o args.files

files == args.files \o <<args.executable>>

\* variant: the base directory check applied to the auxiliary files only
EscapesBase_AuxOnly(fname) ==
    /\ fname # args.executable
    /\ startswithDotDot(relpath(fname, args.base))

EscapesBase(fname) == startswithDotDot(relpath(fname, args.base))

\* one iteration of the bundling loop that passes the base directory check
BundleFile ==
    /\ pc = "bundle"
    /\ idx <= Len(files)
    /\ ~EscapesBase(files[idx])
    /\ filename' = files[idx]
    /\ script' = script \o file_script(files[idx], relpath(files[idx], args.base))
    /\ idx' = idx + 1
    /\ pc' = IF idx = Len(files) THEN "args" ELSE "bundle"
    /\ UNCHANGED <<args, arguments, config, disk, token, client, job_id,
                   status, datalist, item, archive, tree, todo, cwd,
                   emitted, exitcode, calls, writes, attempts>>

\* one iteration of the bundling loop that raises
BundleRaise ==
    /\ pc = "bundle"
    /\ idx <= Len(files)
    /\ EscapesBase(files[idx])
    /\ filename' = files[idx]
    /\ pc' = "failed"
    /\ exitcode' = 1
    /\ UNCHANGED <<args, idx, script, arguments, config, disk, token, client,
                   job_id, status, datalist, item, archive, tree,
                   todo, cwd, emitted, calls, writes, attempts>>

\* variant: the argument test without os.path.isfile
RewriteArg_ExistsOnly(arg) ==
    IF exists(arg) THEN relpath(arg, args.base) ELSE arg

RewriteArg(arg) ==
    IF exists(arg) /\ isfile(arg) THEN relpath(arg, args.base) ELSE arg

\* the argument rewriting loop
RewriteArgs ==
    /\ pc = "args"
    /\ arguments' = [j \in 1..Len(args.args) |-> RewriteArg(args.args[j])]
    /\ pc' = "assemble"
    /\ UNCHANGED <<args, idx, filename, script, config, disk, token, client,
                   job_id, status, datalist, item, archive, tree,
                   todo, cwd, emitted, exitcode, calls, writes, attempts>>

\* the trailer of the companion script
Assemble ==
    /\ pc = "assemble"
    /\ script' = script \o
          << [op |-> "setup"],
             [op |-> "run", path |-> relpath(filename, args.base),
              args |-> arguments],
             [op |-> "cleanup"],
             [op |-> "exit"] >>
    /\ pc' = "config"
    /\ UNCHANGED <<args, idx, filename, arguments, config, disk, token,
                   client, job_id, status, datalist, item, archive,
                   tree, todo, cwd, emitted, exitcode, calls, writes,
                   attempts>>

NextBundle == BundleFile \/ BundleRaise \/ RewriteArgs \/ Assemble

----------------------------------------------------------------------------
(* Session configuration and submission *)

Missing == "<missing>"
Garbage == [state |-> "garbage", data |-> [collab_id |-> Missing, username |-> Missing, token |-> Missing]]
Absent == [state |-> "absent", data |-> [collab_id |-> Missing, username |-> Missing, token |-> Missing]]
Json(cfg) == [state |-> "json", data |-> cfg]

EmptyConfig == [collab_id |-> Missing, username |-> Missing, token |-> Missing]

\* what ~/.nmpi_config may hold when the script starts
StoredConfigs ==
    [collab_id : {"c0", Missing}, username : {"u0", Missing},
     token : {"t0", Missing}]
InitialDisks == {Absent, Garbage} \cup {Json(c) : c \in StoredConfigs}

\* answers typed at the raw_input prompts
CollabAnswers == {"c1"}
UserAnswers == {"u1"}
\* tokens the broker issues on an interactive login
NewTokens == {"t1"}

\* variant: a file that cannot be parsed yields a default user name
LoadedConfig_Defaults(d) ==
    IF d.state = "json" THEN d.data
    ELSE [EmptyConfig EXCEPT !.username = "u0"]

\* the configuration the script starts with
LoadedConfig(d) == IF d.state = "json" THEN d.data ELSE EmptyConfig

LoadConfig ==
    /\ pc = "config"
    /\ \E c \in CollabAnswers, u \in UserAnswers :
          LET loaded == LoadedConfig(disk)
              prompted ==
                  [loaded EXCEPT
                      !.collab_id = IF @ = Missing THEN c ELSE @,
                      !.username = IF @ = Missing THEN u ELSE @]
          IN  /\ config' = prompted
              /\ token' = IF prompted.token # Missing THEN prompted.token
                          ELSE None
    /\ pc' = "submit"
    /\ UNCHANGED <<args, idx, filename, script, arguments, disk, client,
                   job_id, status, datalist, item, archive, tree,
                   todo, cwd, emitted, exitcode, calls, writes, attempts>>

Bump(kind) == [calls EXCEPT ![kind] = @ + 1]

\* Client(username, token).token
ClientToken(tok, fresh) == IF tok = None THEN fresh ELSE tok

\* variant: the file is dumped without the client's token
WithToken_Stale(cfg, clientToken) == cfg

\* config["token"] = client.token, the value then dumped to the file
WithToken(cfg, clientToken) == [cfg EXCEPT !.token = clientToken]

\* variant: the except clause retries whatever the token was
RetryAfterFailure_Always(tok) == TRUE

\* the except clause of the submission loop
RetryAfterFailure(tok) == tok # None

\* variant: the except clause swallows the error and goes on
OnFailure_Swallowed ==
    /\ token' = None
    /\ pc' = "poll"
    /\ UNCHANGED exitcode

OnFailure ==
    /\ token' = None
    /\ pc' = IF RetryAfterFailure(token) THEN "submit" ELSE "failed"
    /\ exitcode' = IF RetryAfterFailure(token) THEN exitcode ELSE 1

\* Client() raises
ClientFails ==
    /\ pc = "submit"
    /\ attempts' = Append(attempts, token)
    /\ calls' = Bump("client")
    /\ OnFailure
    /\ UNCHANGED <<args, idx, filename, script, arguments, config, disk,
                   client, job_id, status, datalist, item, archive,
                   tree, todo, cwd, emitted, writes>>

\* the client is created, writing the configuration file raises
WriteFails ==
    /\ pc = "submit"
    /\ attempts' = Append(attempts, token)
    /\ calls' = Bump("client")
    /\ \E fresh \in NewTokens :
          /\ client' = ClientToken(token, fresh)
          /\ config' = WithToken(config, client')
    /\ disk' \in {disk, Garbage}
    /\ OnFailure
    /\ UNCHANGED <<args, idx, filename, script, arguments, job_id, status,
                   datalist, item, archive, tree, todo, cwd, emitted,
                   writes>>

\* variant: the file is written only after submit_job has returned
SubmitFails_WriteAfterSubmit ==
    /\ pc = "submit"
    /\ attempts' = Append(attempts, token)
    /\ \E fresh \in NewTokens :
          /\ client' = ClientToken(token, fresh)
          /\ config' = WithToken(config, client')
    /\ calls' = [calls EXCEPT !["client"] = @ + 1, !["submit"] = @ + 1]
    /\ OnFailure
    /\ UNCHANGED <<args, idx, filename, script, arguments, disk, job_id,
                   status, datalist, item, archive, tree, todo, cwd, emitted,
                   writes>>

\* the client is created, the file is written, submit_job raises
SubmitFails ==
    /\ pc = "submit"
    /\ attempts' = Append(attempts, token)
    /\ \E fresh \in NewTokens :
          /\ client' = ClientToken(token, fresh)
          /\ config' = WithToken(config, client')
    /\ disk' = Json(config')
    /\ writes' = writes + 1
    /\ calls' = [calls EXCEPT !["client"] = @ + 1, !["submit"] = @ + 1]
    /\ OnFailure
    /\ UNCHANGED <<args, idx, filename, script, arguments, job_id, status,
                   datalist, item, archive, tree, todo, cwd, emitted>>

\* values submit_job may return, as their "/"-separated segments
SubmitReturns == {<<"42">>, <<"", "api", "v2", "queue", "42">>}

\* str(job_id).split("/")[-1]
LastSegment(returned) == returned[Len(returned)]

\* the whole try block succeeds
SubmitOk ==
    /\ pc = "submit"
    /\ attempts' = Append(attempts, token)
    /\ \E fresh \in NewTokens :
          /\ client' = ClientToken(token, fresh)
          /\ config' = WithToken(config, client')
    /\ disk' = Json(config')
    /\ writes' = writes + 1
    /\ calls' = [calls EXCEPT !["client"] = @ + 1, !["submit"] = @ + 1]
    /\ \E returned \in SubmitReturns : job_id' = LastSegment(returned)
    /\ pc' = "poll"
    /\ UNCHANGED <<args, idx, filename, script, arguments, token, status,
                   datalist, item, archive, tree, todo, cwd, emitted,
                   exitcode>>

----------------------------------------------------------------------------
(* Status polling *)

Statuses == {"queued", "running", "finished", "error"}

\* variant: the exit test without the "error" status
IsTerminal_FinishedOnly(s) == s = "finished"

\* the exit test of the poll loop
IsTerminal(s) == s = "error" \/ s = "finished"

Poll ==
    /\ pc = "poll"
    /\ calls.status < MaxPolls
    /\ \E new_status \in Statuses :
          /\ status' = new_status
          /\ pc' = IF IsTerminal(new_status) THEN "getjob" ELSE "poll"
    /\ calls' = Bump("status")
    /\ UNCHANGED <<args, idx, filename, script, arguments, config, disk,
                   token, client, job_id, datalist, item, archive, tree,
                   todo, cwd, emitted, exitcode, writes, attempts>>

----------------------------------------------------------------------------
(* Result retrieval *)

\* tmpdir = "cypress_" + tmpdirname(8), one representative of the random names
tmpdir == "cypress_a1B2c3D4"
StdoutName == "cypress_a1B2c3D4.stdout"
StderrName == "cypress_a1B2c3D4.stderr"

\* names an archive member may carry, as sequences of path components
EntryNames ==
    { <<tmpdir, "out.dat">>,
      <<tmpdir, "sub", "deep.dat">>,
      <<tmpdir, StdoutName>>,
      <<tmpdir, StderrName>>,
      <<"cypress_a1B2c3D4x", "evil.dat">>,
      <<"other", "x.dat">> }

Sidecars == {StdoutName, StderrName}

\* archive members: a name and the size of the file it holds
Members ==
    {[name |-> n, size |-> 1] : n \in EntryNames}
    \cup {[name |-> <<tmpdir, n>>, size |-> 0] : n \in Sidecars}

Archives ==
    {a \in SUBSET Members :
        /\ Cardinality(a) <= MaxMembers
        /\ \A m1, m2 \in a : m1.name = m2.name => m1 = m2}

NoArchive == [present |-> FALSE, members |-> {}]

\* the first components that begin with the characters of tmpdir
TmpPrefixed == {tmpdir, "cypress_a1B2c3D4x"}

\* member.name.startswith(tmpdir)
startswithTmpdir(name) == name[1] \in TmpPrefixed

\* variant: every member is handed to tar.extractall
Selected_All(ar) == ar

\* members handed to tar.extractall
Selected(ar) == {m \in ar : startswithTmpdir(m.name)}

\* os.listdir(tmpdir), defined when the directory exists
TmpdirExists(t) == \E m \in t : m.name[1] = tmpdir
listdir(t) == {m.name[2] : m \in {x \in t : x.name[1] = tmpdir}}

\* os.path.isdir(os.path.join(tmpdir, child))
isdir(t, child) ==
    \E m \in t : m.name[1] = tmpdir /\ m.name[2] = child /\ Len(m.name) > 2

\* the file os.path.join(tmpdir, child)
FileAt(t, child) == CHOOSE m \in t : m.name = <<tmpdir, child>>

\* variant: the temporary directory is left in place
rmtree_Keep(t) == t

\* shutil.rmtree(tmpdir)
rmtree(t) == {m \in t : m.name[1] # tmpdir}

\* variant: the results are fetched for a finished job only
GetJob_FinishedOnly ==
    /\ pc = "getjob"
    /\ IF status = "finished"
       THEN /\ calls' = Bump("get_job")
            /\ datalist' \in BSeq({"match", "other"}, MaxData)
            /\ pc' = "items"
       ELSE /\ pc' = "exit"
            /\ UNCHANGED <<calls, datalist>>
    /\ item' = 1
    /\ UNCHANGED <<args, idx, filename, script, arguments, config, disk,
                   token, client, job_id, status, archive, tree,
                   todo, cwd, emitted, exitcode, writes, attempts>>

GetJob ==
    /\ pc = "getjob"
    /\ calls' = Bump("get_job")
    /\ datalist' \in BSeq({"match", "other"}, MaxData)
    /\ item' = 1
    /\ pc' = "items"
    /\ UNCHANGED <<args, idx, filename, script, arguments, config, disk,
                   token, client, job_id, status, archive, tree,
                   todo, cwd, emitted, exitcode, writes, attempts>>

\* a descriptor whose url path does not contain the archive name
ItemSkip ==
    /\ pc = "items"
    /\ item <= Len(datalist)
    /\ datalist[item] # "match"
    /\ item' = item + 1
    /\ UNCHANGED <<pc, args, idx, filename, script, arguments, config, disk,
                   token, client, job_id, status, datalist, archive,
                   tree, todo, cwd, emitted, exitcode, calls, writes,
                   attempts>>

\* the descriptor list is exhausted
ItemsDone ==
    /\ pc = "items"
    /\ item > Len(datalist)
    /\ pc' = "emit"
    /\ UNCHANGED <<args, idx, filename, script, arguments, config, disk,
                   token, client, job_id, status, datalist, item,
                   archive, tree, todo, cwd, emitted, exitcode, calls,
                   writes, attempts>>

\* urlretrieve(url, archive)
Download ==
    /\ pc = "items"
    /\ item <= Len(datalist)
    /\ datalist[item] = "match"
    /\ calls' = Bump("download")
    /\ \E ar \in Archives : archive' = [present |-> TRUE, members |-> ar]
    /\ pc' = "extract"
    /\ UNCHANGED <<args, idx, filename, script, arguments, config, disk,
                   token, client, job_id, status, datalist, item,
                   tree, todo, cwd, emitted, exitcode, writes, attempts>>

\* extract the selected members, unlink the archive, list the directory
Extract ==
    /\ pc = "extract"
    /\ tree' = tree \cup Selected(archive.members)
    /\ archive' = [archive EXCEPT !.present = FALSE]
    /\ IF TmpdirExists(tree')
       THEN /\ todo' = listdir(tree')
            /\ pc' = "copy"
            /\ UNCHANGED exitcode
       ELSE /\ pc' = "failed"
            /\ exitcode' = 1
            /\ UNCHANGED todo
    /\ UNCHANGED <<args, idx, filename, script, arguments, config, disk,
                   token, client, job_id, status, datalist, item,
                   cwd, emitted, calls, writes, attempts>>

\* an iteration of the copy loop on a directory
CopySkipDir ==
    /\ pc = "copy"
    /\ \E child \in todo :
          /\ isdir(tree, child)
          /\ todo' = todo \ {child}
    /\ UNCHANGED <<pc, args, idx, filename, script, arguments, config, disk,
                   token, client, job_id, status, datalist, item,
                   archive, tree, cwd, emitted, exitcode, calls, writes,
                   attempts>>

\* an iteration of the copy loop whose shutil.copy succeeds
CopyOk ==
    /\ pc = "copy"
    /\ \E child \in todo :
          /\ ~isdir(tree, child)
          /\ todo' = todo \ {child}
          /\ cwd' = cwd \cup {[name |-> child, size |-> FileAt(tree, child).size]}
    /\ UNCHANGED <<pc, args, idx, filename, script, arguments, config, disk,
                   token, client, job_id, status, datalist, item,
                   archive, tree, emitted, exitcode, calls, writes, attempts>>

\* variant: the exception of shutil.copy is not caught
CopyFails_Raises ==
    /\ pc = "copy"
    /\ \E child \in todo :
          /\ ~isdir(tree, child)
          /\ todo' = todo \ {child}
    /\ pc' = "failed"
    /\ exitcode' = 1
    /\ UNCHANGED <<args, idx, filename, script, arguments, config, disk,
                   token, client, job_id, status, datalist, item,
                   archive, tree, cwd, emitted, calls, writes, attempts>>

\* an iteration of the copy loop whose shutil.copy raises
CopyFails ==
    /\ pc = "copy"
    /\ \E child \in todo :
          /\ ~isdir(tree, child)
          /\ todo' = todo \ {child}
    /\ UNCHANGED <<pc, args, idx, filename, script, arguments, config, disk,
                   token, client, job_id, status, datalist, item,
                   archive, tree, cwd, emitted, exitcode, calls, writes,
                   attempts>>

\* the copy loop is over: remove the directory and leave the retrieval loop
Rmtree ==
    /\ pc = "copy"
    /\ todo = {}
    /\ tree' = rmtree(tree)
    /\ pc' = "emit"
    /\ UNCHANGED <<args, idx, filename, script, arguments, config, disk,
                   token, client, job_id, status, datalist, item,
                   archive, todo, cwd, emitted, exitcode, calls, writes,
                   attempts>>

\* variant: the sidecar test without the size
NonEmptyFile_AnySize(name) == \E f \in cwd : f.name = name

\* os.path.isfile(name) and os.stat(name).st_size > 0
NonEmptyFile(name) == \E f \in cwd : f.name = name /\ f.size > 0

\* the log line naming the sidecar file, then the file's lines on the stream
Response(stream, name) ==
    << [to |-> "log", text |-> <<"Response", stream, name>>],
       [to |-> stream, text |-> <<"lines of", name>>] >>

Emit ==
    /\ pc = "emit"
    /\ emitted' =
          (IF NonEmptyFile(StderrName) THEN Response("stderr", StderrName)
           ELSE <<>>)
          \o (IF NonEmptyFile(StdoutName) THEN Response("stdout", StdoutName)
              ELSE <<>>)
    /\ pc' = "exit"
    /\ UNCHANGED <<args, idx, filename, script, arguments, config, disk,
                   token, client, job_id, status, datalist, item,
                   archive, tree, todo, cwd, exitcode, calls, writes,
                   attempts>>

\* variant: the two exit codes exchanged
ExitCode_Inverted(s) == IF s = "finished" THEN 1 ELSE 0

\* sys.exit(0 if status == "finished" else 1)
ExitCode(s) == IF s = "finished" THEN 0 ELSE 1

Exit ==
    /\ pc = "exit"
    /\ exitcode' = ExitCode(status)
    /\ pc' = "done"
    /\ UNCHANGED <<args, idx, filename, script, arguments, config, disk,
                   token, client, job_id, status, datalist, item,
                   archive, tree, todo, cwd, emitted, calls, writes,
                   attempts>>

----------------------------------------------------------------------------
(* Specifications *)

NoCalls ==
    [client |-> 0, submit |-> 0, status |-> 0, get_job |-> 0, download |-> 0]

InitOf(FileLists, Executables, BaseDirs, ArgLists, Disks) ==
    /\ pc = "bundle"
    /\ args \in [executable : Executables, files : FileLists,
                 base : BaseDirs, args : ArgLists]
    /\ idx = 1
    /\ filename = <<>>
    /\ script = <<>>
    /\ arguments = <<>>
    /\ config = EmptyConfig
    /\ disk \in Disks
    /\ token = None
    /\ client = None
    /\ job_id = None
    /\ status = ""
    /\ datalist = <<>>
    /\ item = 1
    /\ archive = NoArchive
    /\ tree = {}
    /\ todo = {}
    /\ cwd = {}
    /\ emitted = <<>>
    /\ exitcode = -1
    /\ calls = NoCalls
    /\ writes = 0
    /\ attempts = <<>>

\* a whole run, on a small choice of command lines
Init ==
    InitOf({<<>>, <<PData>>, <<POut>>}, {PRun, POut}, {PProj},
           {<<PData, AFlag>>}, InitialDisks)

Next ==
    \/ BundleFile \/ BundleRaise \/ RewriteArgs \/ Assemble
    \/ LoadConfig
    \/ ClientFails \/ WriteFails \/ SubmitFails \/ SubmitOk
    \/ Poll
    \/ GetJob \/ ItemSkip \/ ItemsDone \/ Download \/ Extract
    \/ CopySkipDir \/ CopyOk \/ CopyFails \/ Rmtree
    \/ Emit \/ Exit

Spec == Init /\ [][Next]_vars

\* the payload bundler alone, on every command line within the bounds
InitBundle ==
    InitOf(BSeq(Paths, MaxFiles), Paths, Bases, BSeq(ArgValues, MaxArgs),
           {Absent})

SpecBundle == InitBundle /\ [][NextBundle]_vars

----------------------------------------------------------------------------
(* Properties *)

IsPrefix(p, q) == Len(p) <= Len(q) /\ SubSeq(q, 1, Len(p)) = p

\* some path of --files or --executable is not a descendant of --base
SomeInputOutsideBase ==
    \E j \in 1..Len(files) : ~IsPrefix(args.base, files[j])

\* C1: when some path given as --executable or in --files is not a
\* descendant of --base, the run never gets past the bundling loop, it ends
\* in an error, and no broker call of any kind is made.
C1_EscapeFailsBeforeNetwork ==
    SomeInputOutsideBase =>
        /\ pc \in {"bundle", "failed"}
        /\ calls = NoCalls
        /\ pc = "failed" => exitcode = 1

\* a run that bundled an auxiliary file and then failed on the executable
C1_Witness ==
    /\ pc = "failed"
    /\ script # <<>>
    /\ ~IsPrefix(args.base, args.executable)
    /\ calls = NoCalls

\* C2: an attempt with a cached token that fails discards the token and is
\* retried once; an attempt with token None that fails is fatal.  A run
\* makes at most two attempts, the second only with token None after a
\* failed first attempt with a cached token.
C2_RetryOnce ==
    /\ Len(attempts) <= 2
    /\ Len(attempts) = 2 => attempts[1] # None /\ attempts[2] = None
    /\ (pc = "submit" /\ attempts # <<>>) =>
          Len(attempts) = 1 /\ attempts[1] # None /\ token = None
    /\ (pc = "failed" /\ attempts # <<>> /\ job_id = None) =>
          attempts[Len(attempts)] = None
    /\ (attempts # <<>> /\ attempts[Len(attempts)] = None
          /\ pc \notin {"submit", "failed"}) => job_id # None

\* the retry happened and succeeded
C2_Witness ==
    /\ pc = "poll"
    /\ attempts = <<"t0", None>>

\* C3: every iteration of the poll loop issues one job_status call, and the
\* loop is left, for retrieval, exactly when the status just polled is
\* "error" or "finished"; any other status leads to another poll.  So the
\* number of calls made before retrieval is the position of the first
\* terminal status.
C3_PollUntilTerminal ==
    /\ [](pc = "poll" => status \notin {"error", "finished"})
    /\ [][pc = "poll" =>
            /\ calls'.status = calls.status + 1
            /\ pc' \in {"poll", "getjob"}
            /\ pc' = "getjob" <=> status' \in {"error", "finished"}]_vars
    /\ [][calls'.status # calls.status => pc = "poll"]_vars

\* queued/running three times, then finished: four polls, then retrieval
C3_Witness ==
    /\ pc = "getjob"
    /\ calls.status = 4
    /\ status = "finished"

\* an output file of the archive's top level that was not copied
SomeCopyFailed ==
    \E m \in archive.members :
        /\ m.name[1] = tmpdir
        /\ Len(m.name) = 2
        /\ \A f \in cwd : f.name # m.name[2]

\* C4: at the final exit the exit code is 0 when the last polled status is
\* "finished" and 1 when it is "error", whatever happened during retrieval.
C4_ExitCode ==
    pc = "done" =>
        \/ status = "finished" /\ exitcode = 0
        \/ status = "error" /\ exitcode = 1

\* exit code 0 although an output file failed to copy
C4_Witness ==
    /\ pc = "done"
    /\ exitcode = 0
    /\ calls.download = 1
    /\ SomeCopyFailed

\* C5 as stated: the configuration file is written at most once, and only
\* once a submit_job call has succeeded.
C5_Original ==
    /\ writes <= 1
    /\ writes > 0 => job_id # None

\* C5 amended: the configuration file is written once before every
\* submit_job call (in every attempt whose client creation succeeded),
\* whether or not that call then succeeds: at most twice per run, at least
\* once before a successful submission.
C5_WrittenBeforeEachSubmit ==
    /\ writes = calls.submit
    /\ writes <= calls.client
    /\ writes <= 2
    /\ job_id # None => writes >= 1

\* both attempts wrote the file and both submit_job calls failed
C5_Witness ==
    /\ pc = "failed"
    /\ job_id = None
    /\ writes = 2

\* C6: every completed write of the configuration file stores collab_id,
\* username and token; collab_id and username are the values loaded from
\* the file or else prompted, and token is the token of the client created
\* in the same attempt.  After a failed cached-token attempt and a
\* successful attempt with token None the file holds the new token.
C6_PersistedConfig ==
    /\ [][pc = "config" =>
            /\ config'.collab_id =
                  IF disk.state = "json" /\ disk.data.collab_id # Missing
                  THEN disk.data.collab_id ELSE "c1"
            /\ config'.username =
                  IF disk.state = "json" /\ disk.data.username # Missing
                  THEN disk.data.username ELSE "u1"]_vars
    /\ [][writes' # writes =>
            /\ disk'.state = "json"
            /\ disk'.data.collab_id = config.collab_id
            /\ disk'.data.username = config.username
            /\ disk'.data.token = client'
            /\ Missing \notin
                  {disk'.data.collab_id, disk'.data.username,
                   disk'.data.token}
            /\ None # disk'.data.token]_vars
    /\ []((job_id # None /\ Len(attempts) = 2) =>
            /\ disk.data.token \in NewTokens
            /\ disk.data.token # attempts[1])

\* the stale token was replaced on disk by the newly obtained one
C6_Witness ==
    /\ pc = "poll"
    /\ attempts = <<"t0", None>>
    /\ disk = Json([collab_id |-> "c1", username |-> "u0", token |-> "t1"])

\* C7: what extraction writes to the local file system is exactly the set
\* of archive members whose name starts with the temporary directory name.
C7_ExtractOnlyPrefixed ==
    /\ \A m \in tree : m.name[1] \in TmpPrefixed
    /\ (calls.download > 0 /\ ~archive.present /\ pc \in {"copy", "failed"})
          => tree = {m \in archive.members : m.name[1] \in TmpPrefixed}

\* an archive with a member inside and a member outside the prefix
C7_Witness ==
    /\ pc = "copy"
    /\ tree # {}
    /\ \E m \in archive.members : m.name[1] = "other"

\* C8 as stated: after retrieval every extracted file below the temporary
\* directory, at any depth, is in the working directory unless its copy
\* failed (only a top-level file's copy is ever attempted and can fail).
C8_CopiesEveryFile ==
    (pc = "emit" /\ calls.download = 1) =>
        \A m \in archive.members :
            (m.name[1] = tmpdir /\ Len(m.name) > 2) =>
                \E f \in cwd : f.name = m.name[Len(m.name)]

IsRegular(p) == p \in RegularFiles
IsExtract(st) == st.op = "extract"
Manifest == SelectSeq(script, IsExtract)

\* C9 as stated: one extraction instruction per listed path, so that the
\* manifest has len(--files) + 1 entries.
C9_Original ==
    pc = "config" =>
        /\ Len(Manifest) = Len(args.files) + 1
        /\ \A j \in 1..Len(files) :
              Cardinality({i \in 1..Len(Manifest) :
                  Manifest[i].path
                      = SubSeq(files[j], Len(args.base) + 1, Len(files[j]))})
                = 1

\* C9 amended: the manifest holds, in the order --files then --executable,
\* one extraction instruction for every listed path that is an existing
\* regular file, carrying its base-relative path, its mode and its encoded
\* content; a listed path that is no regular file contributes nothing and
\* a path listed twice contributes twice.  The manifest has
\* len(--files) + 1 entries exactly when every listed path is a regular
\* file.
C9_ManifestOfRegularFiles ==
    pc = "config" =>
        LET regular == SelectSeq(files, IsRegular)
        IN  /\ Len(Manifest) = Len(regular)
            /\ \A i \in 1..Len(regular) :
                  /\ Manifest[i].path
                        = SubSeq(regular[i], Len(args.base) + 1,
                                 Len(regular[i]))
                  /\ Manifest[i].mode = st_mode(regular[i])
                  /\ Manifest[i].data = <<"b64", <<"bz2", Content(regular[i])>>>>
            /\ Len(Manifest) = Len(args.files) + 1
                  <=> \A j \in 1..Len(files) : IsRegular(files[j])

\* a listed path that does not exist and a file listed twice
C9_Witness ==
    /\ pc = "config"
    /\ args.files = <<PNope, PRun>>
    /\ args.executable = PRun
    /\ Len(Manifest) = 2

\* the path reached from directory start by the relative path rel
RECURSIVE Resolve(_, _)
Resolve(start, rel) ==
    IF rel = <<>> THEN start
    ELSE IF Head(rel) = ".."
         THEN Resolve(SubSeq(start, 1, Len(start) - 1), Tail(rel))
    ELSE IF Head(rel) = "." THEN Resolve(start, Tail(rel))
    ELSE Resolve(Append(start, Head(rel)), Tail(rel))

RunStatement == CHOOSE st \in {script[i] : i \in 1..Len(script)} : st.op = "run"

\* C10: the argument list of the companion script has the length and order
\* of --args; an argument naming an existing regular file is replaced by a
\* path that leads from --base to that file, every other argument is kept.
C10_ArgumentsRewritten ==
    pc = "config" =>
        LET embedded == RunStatement.args
        IN  /\ Len(embedded) = Len(args.args)
            /\ \A j \in 1..Len(args.args) :
                  IF args.args[j] \in RegularFiles
                  THEN /\ Resolve(args.base, embedded[j]) = args.args[j]
                       /\ embedded[j] # args.args[j]
                  ELSE embedded[j] = args.args[j]

\* a directory argument kept, a file argument outside the base rewritten
C10_Witness ==
    /\ pc = "config"
    /\ args.args = <<PSub, POut>>
    /\ args.base = PSub
    /\ RunStatement.args = <<PSub, <<"..", "..", "etc", "passwd">>>>


\* C11: once a matching descriptor was found and its retrieval completed,
\* the archive file is gone, nothing of the temporary directory is left on
\* the local file system, and the one download made was that of the first
\* matching descriptor.
C11_NoTraces ==
    /\ calls.download <= 1
    /\ (calls.download = 1 /\ pc \in {"emit", "exit", "done"}) =>
          /\ ~archive.present
          /\ \A m \in tree : m.name[1] # tmpdir
          /\ datalist[item] = "match"
          /\ \A j \in 1..(item - 1) : datalist[j] # "match"
    /\ (calls.download = 0 /\ pc \in {"emit", "exit", "done"}) =>
          \A j \in 1..Len(datalist) : datalist[j] # "match"

\* two matching descriptors, the first one retrieved, its tree removed
C11_Witness ==
    /\ pc = "done"
    /\ datalist = <<"match", "match">>
    /\ item = 1
    /\ calls.download = 1
    /\ \E m \in archive.members : m.name[1] = tmpdir
    /\ tree = {}


\* C12: a configuration file that cannot be parsed does not abort the run:
\* collab_id and username are both prompted and the token is None, so the
\* first submission attempt is made with token None; and a first attempt
\* made with token None either succeeds or ends the run, without a retry.
C12_UnparseableConfig ==
    /\ [][(pc = "config" /\ disk.state = "garbage") =>
            /\ pc' = "submit"
            /\ config'.collab_id \in CollabAnswers
            /\ config'.username \in UserAnswers
            /\ config'.token = Missing
            /\ token' = None
            /\ attempts' = <<>>]_vars
    /\ [][(pc = "submit" /\ attempts = <<>> /\ token = None) =>
            /\ attempts' = <<None>>
            /\ \/ pc' = "poll" /\ job_id' # None
               \/ pc' = "failed" /\ exitcode' = 1 /\ job_id' = None]_vars

\* the file was unparseable, both values were prompted, Client() raised
C12_Witness ==
    /\ pc = "failed"
    /\ disk.state = "garbage"
    /\ client = None
    /\ writes = 0
    /\ attempts = <<None>>
    /\ config = [collab_id |-> "c1", username |-> "u1", token |-> Missing]


\* a sidecar file of the working directory that holds at least one byte
HasBytes(name) == \E f \in cwd : f.name = name /\ f.size # 0

\* C13: after retrieval the output step writes, in this order, for the
\* stderr sidecar and then for the stdout sidecar: one log line naming the
\* sidecar file followed by the file's contents on the stream of the same
\* name; a sidecar that is absent from the working directory or empty
\* contributes neither a log line nor output.
C13_CapturedOutput ==
    /\ pc \in {"exit", "done"} =>
          emitted =
             (IF HasBytes("cypress_a1B2c3D4.stderr")
              THEN << [to |-> "log",
                       text |-> <<"Response", "stderr",
                                  "cypress_a1B2c3D4.stderr">>],
                      [to |-> "stderr",
                       text |-> <<"lines of", "cypress_a1B2c3D4.stderr">>] >>
              ELSE <<>>)
             \o (IF HasBytes("cypress_a1B2c3D4.stdout")
                 THEN << [to |-> "log",
                          text |-> <<"Response", "stdout",
                                     "cypress_a1B2c3D4.stdout">>],
                         [to |-> "stdout",
                          text |-> <<"lines of", "cypress_a1B2c3D4.stdout">>] >>
                 ELSE <<>>)
    /\ pc \notin {"exit", "done"} => emitted = <<>>

\* a non-empty stderr sidecar is streamed, an empty stdout sidecar is not
C13_Witness ==
    /\ pc = "done"
    /\ cwd = {[name |-> StderrName, size |-> 1],
              [name |-> StdoutName, size |-> 0]}
    /\ Len(emitted) = 2
    /\ emitted[2].to = "stderr"


\* C14: a step of the copy loop, a failed copy included, visits one entry
\* and stays in the loop without an error; the loop is left only when no
\* entry is left to visit, by removing the temporary directory.  So a run
\* with a failed copy still visits every entry, removes the directory and
\* ends with the exit code of the job status.
C14_CopyFailureNotFatal ==
    /\ [][pc = "copy" =>
            /\ exitcode' = exitcode
            /\ emitted' = emitted
            /\ \/ /\ pc' = "copy"
                  /\ \E child \in todo : todo' = todo \ {child}
                  /\ tree' = tree
               \/ /\ pc' = "emit"
                  /\ todo = {}
                  /\ \A m \in tree' : m.name[1] # tmpdir]_vars
    /\ []((pc = "done" /\ SomeCopyFailed) =>
            /\ todo = {}
            /\ \A m \in tree : m.name[1] # tmpdir
            /\ exitcode = IF status = "finished" THEN 0 ELSE 1)

\* one output file failed to copy, another one was copied, the run ended
C14_Witness ==
    /\ pc = "done"
    /\ SomeCopyFailed
    /\ Cardinality(cwd) = 1
    /\ Cardinality({m \in archive.members :
                       m.name[1] = tmpdir /\ Len(m.name) = 2}) = 2
    /\ tree = {}


\* C15: job_status is called only once a submit_job call has returned;
\* get_job and the download happen only after a terminal status was
\* polled; the job id is set once, by the successful submit_job call, to
\* the last segment of the value it returned, and never changes while
\* job_status and get_job are called; a run whose submission attempts all
\* fail makes no job_status, get_job or download call.
C15_LifecycleOrder ==
    /\ [](/\ job_id = None =>
                calls.status = 0 /\ calls.get_job = 0 /\ calls.download = 0
          /\ calls.status > 0 => calls.submit > 0 /\ job_id = "42"
          /\ calls.get_job > 0 =>
                calls.status > 0 /\ status \in {"error", "finished"}
          /\ calls.download > 0 => calls.get_job = 1)
    /\ [][job_id # None => job_id' = job_id]_vars
    /\ [][job_id' # job_id =>
            /\ calls'.submit = calls.submit + 1
            /\ calls.status = 0
            /\ pc' = "poll"]_vars
    /\ [][(calls'.status # calls.status \/ calls'.get_job # calls.get_job)
            => job_id # None /\ calls'.submit = calls.submit]_vars

\* a retried submission, three polls, get_job and one download
C15_Witness ==
    /\ pc = "done"
    /\ Len(attempts) = 2
    /\ calls = [client |-> 2, submit |-> 2, status |-> 3, get_job |-> 1,
                download |-> 1]
    /\ job_id = "42"


\* C16: retrieval follows either terminal status: whenever the run is past
\* the poll loop, get_job has been called, whether the status is "error"
\* or "finished"; by the time of the output step the archive has been
\* downloaded exactly when a descriptor matched; and the status decides
\* nothing but the exit code.
C16_RetrievalAfterError ==
    /\ pc \in {"items", "extract", "copy", "emit", "exit", "done"} =>
          /\ status \in {"error", "finished"}
          /\ calls.get_job = 1
    /\ pc \in {"emit", "exit", "done"} =>
          (calls.download = 1
              <=> \E j \in 1..Len(datalist) : datalist[j] = "match")
    /\ pc = "done" => (exitcode = 1 <=> status = "error")

\* a job that ended in error: outputs fetched and emitted, exit code 1
C16_Witness ==
    /\ pc = "done"
    /\ status = "error"
    /\ exitcode = 1
    /\ calls.get_job = 1
    /\ calls.download = 1
    /\ cwd # {}
    /\ emitted # <<>>


\* C17: the bundling loop ends on the executable, whatever --files holds,
\* and the companion script consists of the extraction instructions
\* followed by setup, run, cleanup and exit, in this order, where run
\* names the path that leads from --base to --executable.
C17_ScriptShape ==
    /\ pc \in {"args", "assemble", "config"} => filename = args.executable
    /\ pc = "config" =>
          LET n == Len(script)
          IN  /\ n >= 4
              /\ \A i \in 1..(n - 4) : script[i].op = "extract"
              /\ script[n - 3].op = "setup"
              /\ script[n - 2].op = "run"
              /\ Resolve(args.base, script[n - 2].path) = args.executable
              /\ script[n - 1].op = "cleanup"
              /\ script[n].op = "exit"

\* two auxiliary files bundled before the executable, which is the one run
C17_Witness ==
    /\ pc = "config"
    /\ args.files = <<PData, PDeep>>
    /\ args.executable = PRun
    /\ Len(script) = 7
    /\ script[3].path = <<"run.sh">>
    /\ script[5] = [op |-> "run", path |-> <<"run.sh">>, args |-> arguments]

====
